---- MODULE Spec2Model ----
(***************************************************************************)
(* State-machine model of trak/traker.py: the TRAKer object (its Feature   *)
(* Store `grads` and the attributes set by the constructor) and its        *)
(* methods featurize, _featurize_functional, _featurize_iter,              *)
(* record_grads, _get_loss_grad_functional, finalize and score.            *)
(*                                                                         *)
(* Store rows are indexed 0 .. train_set_size-1 as in the source; a        *)
(* gradient matrix is a sequence of rows, position i+1 holding sample i.   *)
(* Scalars are integers; float16 is modelled with its real rounding on     *)
(* integers (11 significant bits, round to nearest, ties to even).         *)
(***************************************************************************)
EXTENDS Integers, Sequences, FiniteSets, TLC

VARIABLES grads, projector, model_params, grad_dim, train_set_size,
          grad_dtype, last_ind, functorch, pc, last, supplied

vars == <<grads, projector, model_params, grad_dim, train_set_size,
          grad_dtype, last_ind, functorch, pc, last, supplied>>

(* ------------------------------ bounds -------------------------------- *)
\* largest train_set_size passed to the constructor
MaxTrain == 2
\* largest number of samples in a batch / rows of a gradient matrix
MaxBatch == 2

\* Python values that an argument may take: None, an int, a list of ints
PyNone == [kind |-> "None"]
PyInt(i) == [kind |-> "int", val |-> i]
PyList(s) == [kind |-> "list", val |-> s]

\* per-sample data values; 2049 is not representable in float16
Data == {1, 2049}

\* constructor arguments explored: (proj_dim, grad_dtype), the second being
\* the default dtype
CtorArgs == {[proj_dim |-> 1, grad_dtype |-> "float32"],
             [proj_dim |-> 2, grad_dtype |-> "float16"]}

(* ------------------------- numeric conversions ------------------------ *)
Abs(x) == IF x < 0 THEN 0 - x ELSE x

RECURSIVE HalfUlp(_)
\* spacing of float16 values around magnitude a (a natural number)
HalfUlp(a) == IF a < 2048 THEN 1 ELSE 2 * HalfUlp(a \div 2)

\* round the natural number a to a multiple of u, ties to the even multiple
RoundTiesEven(a, u) ==
    LET q == a \div u
        r == a % u
    IN  IF 2 * r < u THEN q * u
        ELSE IF 2 * r > u THEN (q + 1) * u
        ELSE IF q % 2 = 0 THEN q * u ELSE (q + 1) * u

\* Tensor.to(dtype) on one scalar
ToDtype(x, dtype) ==
    IF dtype = "float16"
    THEN LET a == Abs(x)
             h == RoundTiesEven(a, HalfUlp(a))
         IN  IF x < 0 THEN 0 - h ELSE h
    ELSE x

\* Tensor.to(dtype) on a matrix
MatTo(g, dtype) ==
    [i \in DOMAIN g |-> [j \in DOMAIN g[i] |-> ToDtype(g[i][j], dtype)]]

(* ------------------------------ projector ----------------------------- *)
\* entry (j, k) of the random map fixed by (seed, proj_type)
ProjEntry(seed, proj_type, j, k) ==
    IF proj_type = "rademacher"
    THEN (IF (seed + j * k + j) % 2 = 0 THEN 1 ELSE 0 - 1)
    ELSE ((seed + 2 * j + 3 * k) % 5) - 2

RECURSIVE Dot(_, _, _, _)
\* sum over the first j coordinates of row[j] * entry(j, k)
Dot(proj, row, k, j) ==
    IF j = 0 THEN 0
    ELSE Dot(proj, row, k, j - 1)
         + row[j] * ProjEntry(proj.seed, proj.proj_type, j, k)

\* projection of one gradient row, in the projector's working dtype
ProjectRow(proj, row) ==
    [k \in 1..proj.proj_dim |->
        ToDtype(Dot(proj, row, k, proj.grad_dim), proj.dtype)]

\* projector.project: each row independently
Project(proj, g) == [i \in DOMAIN g |-> ProjectRow(proj, g[i])]

(* --------------------------- constructor ------------------------------ *)
\* parameters_to_vector(model.parameters())
parameters_to_vector == <<1, 1>>

\* projector(seed=..., proj_dim=..., grad_dim=..., proj_type=..., dtype=...)
NewProjector(proj_seed, proj_dim, gdim, proj_type, dtype) ==
    [seed |-> proj_seed, proj_dim |-> proj_dim, grad_dim |-> gdim,
     proj_type |-> proj_type, dtype |-> dtype]

\* ch.zeros([train_set_size, proj_dim])
ZerosSwapped(n, p) == [r \in 0..(p - 1) |-> [k \in 1..n |-> 0]]

Zeros(n, p) == [r \in 0..(n - 1) |-> [k \in 1..p |-> 0]]

NoCall(op) ==
    [op |-> op, functional |-> FALSE, batch |-> <<>>, inds |-> PyNone,
     err |-> "ok", calls |-> {}, replaced |-> {}]

Init ==
    \E n \in 1..MaxTrain, a \in CtorArgs :
      LET p == a.proj_dim
          dt == a.grad_dtype
      IN
        /\ grad_dtype = dt
        /\ last_ind = 0
        /\ projector = NewProjector(0, p, Len(parameters_to_vector),
                                    "normal", dt)
        /\ train_set_size = n
        /\ model_params = parameters_to_vector
        /\ grad_dim = Len(parameters_to_vector)
        /\ grads = Zeros(n, p)
        /\ functorch \in BOOLEAN
        /\ pc = "returned"
        /\ last = NoCall("__init__")
        /\ supplied = [r \in 0..(n - 1) |-> {}]

(* ------------------------------ inputs -------------------------------- *)
\* a tensor of per-sample data: one value per sample
Tensors == UNION {[1..b -> Data] : b \in 1..MaxBatch}

\* label tensors for the images x: one label per sample, or one too many
\* (the modelled output function does not read the labels)
LabelTensors(x) == {[i \in 1..b |-> 0] : b \in {Len(x), Len(x) + 1}}

\* batch: an iterable of tensors, here (images,) or (images, labels)
Batches == {<<x>> : x \in Tensors}
           \cup UNION {{<<x, y>> : y \in LabelTensors(x)} : x \in Tensors}

\* raw gradient matrices of shape (B, grad_dim): first coordinate from Data
GradMats ==
    {[i \in 1..Len(x) |-> [j \in 1..Len(parameters_to_vector) |->
                            IF j = 1 THEN x[i] ELSE 0]]
     : x \in Tensors}

\* index lists over the Sample Indices 0 .. n-1
IndexLists(n) == UNION {[1..l -> 0..(n - 1)] : l \in 0..MaxBatch}

\* values of the inds argument: None (featurize's default) or a list
IndsArgs(n) == {PyNone} \cup {PyList(s) : s \in IndexLists(n)}

(* ----------------------- gradient extraction -------------------------- *)
\* all tensors of the batch share the leading (batch) dimension
SameLeading(batch) == \A t \in 1..Len(batch) : Len(batch[t]) = Len(batch[1])

\* per-sample gradient of the model output w.r.t. the flattened parameters:
\* the output is linear in the parameters, parameter j multiplying tensor j
OutGrads(batch) ==
    [i \in 1..Len(batch[1]) |->
        [j \in 1..grad_dim |-> IF j <= Len(batch) THEN batch[j][i] ELSE 0]]

\* TRAKer._featurize_iter(out_fn, model, batch, batch_size); moving the
\* zero matrix to the GPU (.cuda()) succeeds or raises
featurize_iter(batch, batch_size) ==
    LET bs == IF batch_size.kind = "None" THEN PyInt(Len(batch[1]))
              ELSE batch_size
    IN  IF bs.kind # "int" THEN {[err |-> "TypeError", val |-> <<>>]}
        ELSE {[err |-> "RuntimeError", val |-> <<>>]}
             \cup
             ( IF ~SameLeading(batch)
               THEN {[err |-> "RuntimeError", val |-> <<>>]}
               ELSE IF bs.val > Len(batch[1])
               THEN {[err |-> "IndexError", val |-> <<>>]}
               ELSE {[err |-> "ok",
                      val |-> [i \in 1..bs.val |-> OutGrads(batch)[i]]]} )

(* ---------------------------- Feature Store --------------------------- *)
\* number of rows selected by store[inds]
IndexedLen(store, inds) ==
    IF inds.kind = "None" THEN Cardinality(DOMAIN store) ELSE Len(inds.val)

\* store row selected by position p of store[inds]
IndexedRow(inds, p) == IF inds.kind = "None" THEN p - 1 ELSE inds.val[p]

\* store[inds] = value : broadcast value to the indexed shape, then write;
\* the outcome for an index that occurs twice is any one of its values
IndexPut(store, inds, value) ==
    LET B == Len(value)
        L == IndexedLen(store, inds)
        Src(p) == IF B = 1 THEN 1 ELSE p
        Pos(r) == {p \in 1..L : IndexedRow(inds, p) = r}
        Picks == {f \in [DOMAIN store -> 0..L] :
                    \A r \in DOMAIN store :
                        IF Pos(r) = {} THEN f[r] = 0 ELSE f[r] \in Pos(r)}
    IN  IF B # L /\ B # 1
        THEN {[err |-> "RuntimeError", grads |-> store]}
        ELSE {[err |-> "ok",
               grads |-> [r \in DOMAIN store |->
                            IF f[r] = 0 THEN store[r] ELSE value[Src(f[r])]]]
              : f \in Picks}

\* record_grads summing the projection into the addressed rows
record_grads_accumulate(g, inds) ==
    LET projected == Project(projector, MatTo(g, grad_dtype))
        res == IndexPut(grads, inds, MatTo(projected, "float32"))
    IN  {IF w.err # "ok" THEN w
         ELSE [w EXCEPT !.grads =
                 [r \in DOMAIN grads |->
                    IF r \in {IndexedRow(inds, p) :
                                p \in 1..IndexedLen(grads, inds)}
                    THEN [k \in DOMAIN grads[r] |->
                            grads[r][k] + w.grads[r][k]]
                    ELSE grads[r]]]
         : w \in res}

\* record_grads writing the first len(inds) rows instead of the rows inds
record_grads_prefix(g, inds) ==
    LET projected == Project(projector, MatTo(g, grad_dtype))
        L == IndexedLen(grads, inds)
    IN  IF L > Cardinality(DOMAIN grads)
        THEN {[err |-> "IndexError", grads |-> grads]}
        ELSE IndexPut(grads, PyList([p \in 1..L |-> p - 1]),
                      MatTo(projected, "float32"))

\* TRAKer.record_grads(grads, inds)
record_grads(g, inds) ==
    LET projected == Project(projector, MatTo(g, grad_dtype))
    IN  IndexPut(grads, inds, MatTo(projected, "float32"))

(* ------------------------------ featurize ----------------------------- *)
\* TRAKer._featurize_functional(out_fn, weights, buffers, batch, inds)
featurize_functional(batch, inds) ==
    IF ~functorch
    THEN {[err |-> "NameError", grads |-> grads, wrote |-> FALSE,
           calls |-> {"_featurize_functional"}]}
    ELSE IF ~SameLeading(batch)
    THEN {[err |-> "ValueError", grads |-> grads, wrote |-> FALSE,
           calls |-> {"_featurize_functional"}]}
    ELSE {[err |-> r.err, grads |-> r.grads, wrote |-> r.err = "ok",
           calls |-> {"_featurize_functional", "record_grads"}]
          : r \in record_grads(OutGrads(batch), inds)}

\* TRAKer._get_loss_grad_functional(func_model, weights, buffers, batch, inds)
get_loss_grad_functional(batch) ==
    IF Len(batch) # 2 THEN [err |-> "ValueError"] ELSE [err |-> "ok"]

\* featurize running the iterative strategy when functorch is missing
featurize_fallback(functional, batch, inds) ==
    IF functional /\ functorch
    THEN {IF r.err # "ok" THEN r
          ELSE [r EXCEPT !.err = get_loss_grad_functional(batch).err,
                         !.calls = @ \cup {"_get_loss_grad_functional"}]
          : r \in featurize_functional(batch, inds)}
    ELSE {[err |-> IF it.err # "ok" THEN it.err ELSE "AttributeError",
           grads |-> grads, wrote |-> FALSE,
           calls |-> {"_featurize_iter"}]
          : it \in featurize_iter(batch, inds)}

\* featurize whose iterative branch records the extracted gradients
featurize_iter_records(functional, batch, inds) ==
    IF functional
    THEN {IF r.err # "ok" THEN r
          ELSE [r EXCEPT !.err = get_loss_grad_functional(batch).err,
                         !.calls = @ \cup {"_get_loss_grad_functional"}]
          : r \in featurize_functional(batch, inds)}
    ELSE UNION {
           IF it.err # "ok"
           THEN {[err |-> it.err, grads |-> grads, wrote |-> FALSE,
                  calls |-> {"_featurize_iter"}]}
           ELSE {[err |-> IF r.err # "ok" THEN r.err ELSE "AttributeError",
                  grads |-> r.grads, wrote |-> r.err = "ok",
                  calls |-> {"_featurize_iter", "record_grads"}]
                 : r \in record_grads(it.val, inds)}
           : it \in featurize_iter(batch, inds)}

\* TRAKer.featurize(out_fn, loss_fn, model, batch, inds, functional)
featurize(functional, batch, inds) ==
    IF functional
    THEN {IF r.err # "ok" THEN r
          ELSE [r EXCEPT !.err = get_loss_grad_functional(batch).err,
                         !.calls = @ \cup {"_get_loss_grad_functional"}]
          : r \in featurize_functional(batch, inds)}
    ELSE {[err |-> IF it.err # "ok" THEN it.err ELSE "AttributeError",
           grads |-> grads, wrote |-> FALSE,
           calls |-> {"_featurize_iter"}]
          : it \in featurize_iter(batch, inds)}

(* ------------------- rows supplied by a completed write --------------- *)
\* for every row, the raw gradient rows handed to it by the latest completed
\* record_grads call that addressed it
Supply(sup, g, inds) ==
    LET L == IndexedLen(sup, inds)
        Pos(r) == {p \in 1..L : IndexedRow(inds, p) = r}
    IN  [r \in DOMAIN sup |->
            IF Pos(r) = {} THEN sup[r]
            ELSE {g[IF Len(g) = 1 THEN 1 ELSE p] : p \in Pos(r)}]

\* rows that held a supply and were handed a different one
Resupplied(sup, newsup) ==
    {r \in DOMAIN sup : sup[r] # {} /\ newsup[r] # sup[r]}

(* ------------------------------ actions ------------------------------- *)
Attrs == <<projector, model_params, grad_dim, train_set_size, grad_dtype,
           last_ind, functorch>>

\* the effect of a featurize call on the store and on the call record
FeaturizeEffect ==
    /\ pc = "ready"
    /\ \E functional \in BOOLEAN, batch \in Batches,
          inds \in IndsArgs(train_set_size) :
         \E r \in featurize(functional, batch, inds) :
            LET sup == IF r.wrote
                       THEN Supply(supplied, OutGrads(batch), inds)
                       ELSE supplied
            IN  /\ grads' = r.grads
                /\ supplied' = sup
                /\ last' = [op |-> "featurize", functional |-> functional,
                            batch |-> batch, inds |-> inds, err |-> r.err,
                            calls |-> r.calls,
                            replaced |-> Resupplied(supplied, sup)]
    /\ pc' = "returned"

\* featurize advancing last_ind past the batch
FeaturizeAdvancesLastInd ==
    /\ FeaturizeEffect
    /\ last_ind' = IF last_ind < MaxBatch THEN last_ind + 1 ELSE last_ind
    /\ UNCHANGED <<projector, model_params, grad_dim, train_set_size,
                   grad_dtype, functorch>>

\* a call of featurize from the caller, run to its return or its exception
Featurize ==
    /\ FeaturizeEffect
    /\ UNCHANGED Attrs

\* a direct call of record_grads
RecordGrads ==
    /\ pc = "ready"
    /\ \E g \in GradMats, inds \in IndsArgs(train_set_size) \ {PyNone} :
         \E r \in record_grads(g, inds) :
            LET sup == IF r.err = "ok" THEN Supply(supplied, g, inds)
                       ELSE supplied
            IN
            /\ grads' = r.grads
            /\ supplied' = sup
            /\ last' = [op |-> "record_grads", functional |-> FALSE,
                        batch |-> g, inds |-> inds, err |-> r.err,
                        calls |-> {"record_grads"},
                        replaced |-> Resupplied(supplied, sup)]
    /\ pc' = "returned"
    /\ UNCHANGED Attrs

\* a direct call of _featurize_iter
FeaturizeIter ==
    /\ pc = "ready"
    /\ \E batch \in Batches,
          bs \in {PyNone} \cup {PyInt(b) : b \in 1..MaxBatch} :
         \E it \in featurize_iter(batch, bs) :
            last' = [op |-> "_featurize_iter", functional |-> FALSE,
                     batch |-> batch, inds |-> bs, err |-> it.err,
                     calls |-> {"_featurize_iter"}, replaced |-> {}]
    /\ pc' = "returned"
    /\ UNCHANGED <<grads, supplied>>
    /\ UNCHANGED Attrs

\* a direct call of _get_loss_grad_functional
GetLossGradFunctional ==
    /\ pc = "ready"
    /\ \E batch \in Batches :
         last' = [op |-> "_get_loss_grad_functional", functional |-> TRUE,
                  batch |-> batch, inds |-> PyNone,
                  err |-> get_loss_grad_functional(batch).err,
                  calls |-> {"_get_loss_grad_functional"}, replaced |-> {}]
    /\ pc' = "returned"
    /\ UNCHANGED <<grads, supplied>>
    /\ UNCHANGED Attrs

\* finalize clearing the store
FinalizeCleanup ==
    /\ pc = "ready"
    /\ last' = NoCall("finalize")
    /\ pc' = "returned"
    /\ grads' = Zeros(train_set_size, projector.proj_dim)
    /\ UNCHANGED supplied
    /\ UNCHANGED Attrs

\* TRAKer.finalize(out_dir, cleanup, agg): pass
Finalize ==
    /\ pc = "ready"
    /\ last' = NoCall("finalize")
    /\ pc' = "returned"
    /\ UNCHANGED <<grads, supplied>>
    /\ UNCHANGED Attrs

\* TRAKer.score(val, params): returns ch.zeros(1, 1)
Score ==
    /\ pc = "ready"
    /\ last' = NoCall("score")
    /\ pc' = "returned"
    /\ UNCHANGED <<grads, supplied>>
    /\ UNCHANGED Attrs

\* the call returns (or its exception reaches the caller)
Return ==
    /\ pc = "returned"
    /\ pc' = "ready"
    /\ last' = NoCall("none")
    /\ UNCHANGED <<grads, supplied>>
    /\ UNCHANGED Attrs

Next ==
    \/ Featurize
    \/ RecordGrads
    \/ FeaturizeIter
    \/ GetLossGradFunctional
    \/ Finalize
    \/ Score
    \/ Return

Spec == Init /\ [][Next]_vars

(* ------------------------- vocabulary of the claims ------------------- *)
\* the stored projection of one raw gradient row
Projection(row) ==
    ProjectRow(projector, [j \in DOMAIN row |-> ToDtype(row[j], grad_dtype)])

ZeroRow == [k \in 1..projector.proj_dim |-> 0]

\* the rows named by an index list
Named(inds) == {inds.val[p] : p \in 1..Len(inds.val)}

\* inds is a list of pairwise distinct Sample Indices
ValidInds(inds) ==
    /\ inds.kind = "list"
    /\ \A p \in 1..Len(inds.val) : inds.val[p] \in 0..(train_set_size - 1)
    /\ \A p, q \in 1..Len(inds.val) : inds.val[p] = inds.val[q] => p = q

\* number of gradient rows handed to record_grads by the last call
GradRows(call) ==
    IF call.op = "record_grads" THEN Len(call.batch) ELSE Len(call.batch[1])

TypeOK ==
    /\ pc \in {"ready", "returned"}
    /\ DOMAIN grads = 0..(train_set_size - 1)
    /\ last.replaced \subseteq DOMAIN grads

(* -------------------------------- C1 ---------------------------------- *)
\* C1 (as claimed): a featurize call on a well-formed batch (images and
\* labels of one batch size) with a list of distinct Sample Indices as long
\* as the batch completes, with either strategy (the batched one where
\* functorch is importable), and leaves row inds[i] equal to the projection
\* of the output gradient of sample i.
C1_FeaturizeWritesRows ==
    ( /\ last.op = "featurize"
      /\ Len(last.batch) = 2
      /\ SameLeading(last.batch)
      /\ ValidInds(last.inds)
      /\ Len(last.inds.val) = Len(last.batch[1])
      /\ (last.functional => functorch) )
    => ( /\ last.err = "ok"
         /\ \A p \in 1..Len(last.inds.val) :
               grads[last.inds.val[p]] = Projection(OutGrads(last.batch)[p]) )

(* -------------------------------- C2 ---------------------------------- *)
\* C2 (as claimed): a featurize call that fails leaves every row of the
\* Feature Store as it was before the call.
C2_FailedCallLeavesStore ==
    [][(last'.op = "featurize" /\ last'.err # "ok") => grads' = grads]_vars

(* -------------------------------- C3 ---------------------------------- *)
\* C3: every row that some completed record_grads call addressed holds the
\* projection of a gradient row handed to it by the latest such call (a
\* call with inds = None addresses every row): writes overwrite, they never
\* accumulate.
C3_LatestWriteWins ==
    \A r \in DOMAIN grads :
        supplied[r] # {} => grads[r] \in {Projection(x) : x \in supplied[r]}

\* a row that held one projection was handed a different gradient row by a
\* later completed record_grads call
C3_Witness ==
    /\ pc = "returned"
    /\ last.op = "record_grads"
    /\ last.err = "ok"
    /\ last.inds.kind = "list"
    /\ \E r \in Named(last.inds) \cap last.replaced :
          /\ Cardinality(supplied[r]) = 1
          /\ grads[r] # ZeroRow

(* -------------------------------- C4 ---------------------------------- *)
\* C4: a featurize or record_grads call given an index list inds leaves
\* every row whose index is not in inds as it was, and a row that no
\* completed write has addressed since construction is zero.
C4_OnlyNamedRowsChange ==
    /\ [][(last'.op \in {"featurize", "record_grads"}
           /\ last'.inds.kind = "list")
          => \A r \in DOMAIN grads :
                r \notin Named(last'.inds) => grads'[r] = grads[r]]_vars
    /\ [](\A r \in DOMAIN grads : supplied[r] = {} => grads[r] = ZeroRow)

\* a completed featurize wrote a row and left another, never written, zero
C4_Witness ==
    /\ last.op = "featurize"
    /\ last.err = "ok"
    /\ last.inds.kind = "list"
    /\ \E r \in Named(last.inds) : grads[r] # ZeroRow
    /\ \E r \in DOMAIN grads \ Named(last.inds) :
          supplied[r] = {} /\ grads[r] = ZeroRow

(* -------------------------------- C5 ---------------------------------- *)
\* C5 (as claimed): when record_grads is handed B gradient rows and an
\* index list of another length, directly or by featurize's batched
\* strategy, the call fails and no row of the store changes.
C5_MismatchFails ==
    [][( /\ \/ last'.op = "record_grads"
            \/ /\ last'.op = "featurize"
               /\ "record_grads" \in last'.calls
         /\ last'.inds.kind = "list"
         /\ GradRows(last') # Len(last'.inds.val) )
       => (last'.err # "ok" /\ grads' = grads)]_vars

(* -------------------------------- C6 ---------------------------------- *)
\* C6: where functorch could not be imported, featurize(functional=True)
\* fails at the lookup of `grad`, does not run _featurize_iter and leaves
\* the store unchanged.
C6_NoFallback ==
    [][(last'.op = "featurize" /\ last'.functional /\ ~functorch)
       => ( /\ last'.err = "NameError"
            /\ "_featurize_iter" \notin last'.calls
            /\ "record_grads" \notin last'.calls
            /\ grads' = grads )]_vars

\* the batched strategy was requested without functorch on a store that
\* already holds a written row
C6_Witness ==
    /\ last.op = "featurize"
    /\ last.functional
    /\ ~functorch
    /\ last.err = "NameError"
    /\ \E r \in DOMAIN grads : grads[r] # ZeroRow

(* -------------------------------- C7 ---------------------------------- *)
\* C7: when the constructor returns, the Feature Store has train_set_size
\* rows of proj_dim entries, all zero.
C7_StoreInitialisedZero ==
    last.op = "__init__"
    => /\ DOMAIN grads = 0..(train_set_size - 1)
       /\ \A r \in DOMAIN grads :
             /\ DOMAIN grads[r] = 1..projector.proj_dim
             /\ \A k \in DOMAIN grads[r] : grads[r][k] = 0

\* the constructor has returned with train_set_size different from proj_dim
C7_Witness ==
    /\ last.op = "__init__"
    /\ pc = "returned"
    /\ train_set_size # projector.proj_dim
    /\ Cardinality(DOMAIN grads) = train_set_size

(* -------------------------------- C8 ---------------------------------- *)
\* C8: a step changes the Feature Store only if it ran record_grads;
\* _featurize_iter, _get_loss_grad_functional, finalize and score leave
\* every row as it was; no step changes the shape of the store.
C8_OnlyRecordGradsWrites ==
    [][ /\ (grads' # grads => "record_grads" \in last'.calls)
        /\ (last'.op \in {"_featurize_iter", "_get_loss_grad_functional",
                          "finalize", "score"} => grads' = grads)
        /\ DOMAIN grads' = DOMAIN grads
        /\ \A r \in DOMAIN grads : DOMAIN grads'[r] = DOMAIN grads[r]
        /\ DOMAIN grads' = 0..(train_set_size - 1)
        /\ \A r \in DOMAIN grads' : DOMAIN grads'[r] = 1..projector.proj_dim
      ]_vars

\* finalize has run on a store that holds a written row
C8_Witness ==
    /\ last.op = "finalize"
    /\ pc = "returned"
    /\ \E r \in DOMAIN grads : grads[r] # ZeroRow

(* -------------------------------- C9 ---------------------------------- *)
\* C9: no call changes the projector, the flattened parameter vector,
\* grad_dim, train_set_size, grad_dtype or last_ind.
C9_AttributesImmutable ==
    [][ /\ projector' = projector
        /\ model_params' = model_params
        /\ grad_dim' = grad_dim
        /\ train_set_size' = train_set_size
        /\ grad_dtype' = grad_dtype
        /\ last_ind' = last_ind ]_vars

\* a featurize call has completed and written the store; the attributes
\* hold the constructor's values
C9_Witness ==
    /\ last.op = "featurize"
    /\ last.err = "ok"
    /\ \E r \in DOMAIN grads : grads[r] # ZeroRow
    /\ last_ind = 0
    /\ model_params = parameters_to_vector
    /\ grad_dim = Len(model_params)

(* -------------------------------- C10 --------------------------------- *)
\* C10: a featurize call with functional=False never returns normally,
\* never runs record_grads and leaves the store as it was; when
\* _featurize_iter itself returns, the call fails at the lookup of the
\* undefined _get_loss_grad_iter.
C10_IterativeNeverWrites ==
    [][(last'.op = "featurize" /\ ~last'.functional)
       => ( /\ last'.err # "ok"
            /\ "record_grads" \notin last'.calls
            /\ grads' = grads
            /\ (last'.inds.kind = "list" => last'.err = "TypeError") )]_vars

\* _featurize_iter ran to its return (inds omitted, .cuda() succeeded) and the
\* call then failed on _get_loss_grad_iter
C10_Witness ==
    /\ last.op = "featurize"
    /\ ~last.functional
    /\ last.inds.kind = "None"
    /\ last.err = "AttributeError"
    /\ last.calls = {"_featurize_iter"}
====
